---------------------------- MODULE Spec2Model ----------------------------
(***************************************************************************)
(* A model of the Wavefront OBJ / MTL importer of libs/mve/objfile.cc.     *)
(*                                                                         *)
(* The two parsers are character-level state machines over a std::ifstream;*)
(* the model keeps that level.  A file is a string, a stream is a record  *)
(* [pos, eof, fail] (index of the next character, eofbit, failbit), and    *)
(* every extraction the code uses (get, unget, operator>> for char, int    *)
(* and float, safe_get_line) is an operator on (text, stream).  One action *)
(* is one iteration of a parser's `while (file)` loop, i.e. one case of    *)
(* its switch with every call it makes, or one call of                     *)
(* triangle_mesh_from_group.                                               *)
(*                                                                         *)
(* Numbers: the literals of the modelled inputs are decimal integers, and  *)
(* operator>>(float&) is modelled on that sub-grammar ([sign] digits).     *)
(* A value the code leaves uninitialised or reads out of bounds is the     *)
(* indeterminate value G; an undefined read has two outcomes, the process  *)
(* dies or the read yields G.                                              *)
(***************************************************************************)
EXTENDS Integers, Sequences, FiniteSets, TLC

\* F applied to the value v: names an intermediate result, as a local
\* variable of the code does.
With(v, F(_)) == F(v)

(***************************************************************************)
(* Characters and strings                                                  *)
(***************************************************************************)

\* std::isspace in the "C" locale, restricted to the characters of the inputs.
IsSpace(c) == c \in {" ", "\t", "\n", "\r", "\f"}

IsDigit(c) == c \in {"0", "1", "2", "3", "4", "5", "6", "7", "8", "9"}

DigitVal(c) ==
    CASE c = "0" -> 0 [] c = "1" -> 1 [] c = "2" -> 2 [] c = "3" -> 3
      [] c = "4" -> 4 [] c = "5" -> 5 [] c = "6" -> 6 [] c = "7" -> 7
      [] c = "8" -> 8 [] c = "9" -> 9

\* The character of text t at index i (1-based); "" beyond the end (EOF).
CharAt(t, i) == IF i >= 1 /\ i <= Len(t) THEN SubSeq(t, i, i) ELSE ""

\* std::string::find(needle, 0): the 0-based index of the first occurrence,
\* or -1 for npos.
StrFind(t, needle) ==
    LET n == Len(needle)
        hits == {i \in 1..(Len(t) - n + 1) : SubSeq(t, i, i + n - 1) = needle}
    IN IF hits = {} THEN -1
       ELSE (CHOOSE i \in hits : \A j \in hits : i <= j) - 1

\* std::string::substr(from) with 0-based from <= size.
StrSubstr(t, from) == SubSeq(t, from + 1, Len(t))

\* The indeterminate number: an uninitialised object or an out-of-bounds
\* read.  It lies outside the range of every literal of the inputs.
G == 0 - 99999

\* The not-a-number a float division 0/0 gives.
NaN == 0 - 88888

\* An indeterminate std::string.
GString == "<indeterminate>"

(***************************************************************************)
(* std::istream                                                            *)
(***************************************************************************)

\* A freshly opened stream on an existing file.
OpenStream == [pos |-> 1, eof |-> FALSE, fail |-> FALSE]

\* std::ios::good()
Good(s) == ~s.eof /\ ~s.fail

\* operator bool / operator void* of the stream: !fail()
StreamOk(s) == ~s.fail

\* The first index >= i of t that holds no whitespace (Len(t)+1 when none).
RECURSIVE SkipWs(_, _)
SkipWs(t, i) ==
    IF i <= Len(t) /\ IsSpace(CharAt(t, i)) THEN SkipWs(t, i + 1) ELSE i

\* istream::sentry with skipws: a stream that is not good gets failbit; a
\* stream that runs into the end while skipping gets eofbit and failbit.
Sentry(t, s) ==
    IF ~Good(s) THEN [s |-> [s EXCEPT !.fail = TRUE], ok |-> FALSE]
    ELSE LET p == SkipWs(t, s.pos)
         IN IF p > Len(t)
            THEN [s |-> [pos |-> p, eof |-> TRUE, fail |-> TRUE], ok |-> FALSE]
            ELSE [s |-> [s EXCEPT !.pos = p], ok |-> TRUE]

\* istream::get(char&): unformatted; c keeps its old value when nothing is read.
Get(t, s, c) ==
    IF ~Good(s) THEN [s |-> [s EXCEPT !.fail = TRUE], c |-> c, ok |-> FALSE]
    ELSE IF s.pos > Len(t)
         THEN [s |-> [s EXCEPT !.eof = TRUE, !.fail = TRUE], c |-> c, ok |-> FALSE]
         ELSE [s |-> [s EXCEPT !.pos = s.pos + 1], c |-> CharAt(t, s.pos), ok |-> TRUE]

\* istream::unget(): puts the last character back on a good stream, sets
\* failbit otherwise.
Unget(s) ==
    IF Good(s) /\ s.pos > 1 THEN [s EXCEPT !.pos = s.pos - 1]
    ELSE [s EXCEPT !.fail = TRUE]

\* operator>>(char&): skips whitespace, then reads one character.
ReadChar(t, s, c) ==
    LET se == Sentry(t, s)
    IN IF se.ok
       THEN [s |-> [se.s EXCEPT !.pos = se.s.pos + 1], c |-> CharAt(t, se.s.pos),
             ok |-> TRUE]
       ELSE [s |-> se.s, c |-> c, ok |-> FALSE]

\* The index after the run of digits that starts at i.
RECURSIVE SkipDigits(_, _)
SkipDigits(t, i) ==
    IF i <= Len(t) /\ IsDigit(CharAt(t, i)) THEN SkipDigits(t, i + 1) ELSE i

\* The decimal value of the digits t[i..j-1], after the accumulated value acc.
RECURSIVE DigitsValue(_, _, _, _)
DigitsValue(t, i, j, acc) ==
    IF i >= j THEN acc ELSE DigitsValue(t, i + 1, j, 10 * acc + DigitVal(CharAt(t, i)))

\* The digits t[d0..d1-1] read as a number, after an optional sign at p: no
\* digit sets failbit and stores 0; the end of the file sets eofbit.
ReadDigits(t, p, d0, d1) ==
    IF d1 = d0
    THEN [s |-> [pos |-> d0, eof |-> d1 > Len(t), fail |-> TRUE], v |-> 0, ok |-> FALSE]
    ELSE [s |-> [pos |-> d1, eof |-> d1 > Len(t), fail |-> FALSE],
          v |-> IF CharAt(t, p) = "-" THEN 0 - DigitsValue(t, d0, d1, 0)
                ELSE DigitsValue(t, d0, d1, 0),
          ok |-> TRUE]

\* The number that starts at p, the first character after the whitespace.
ReadNumberAt(t, p) ==
    IF CharAt(t, p) \in {"-", "+"} THEN ReadDigits(t, p, p + 1, SkipDigits(t, p + 1))
    ELSE ReadDigits(t, p, p, SkipDigits(t, p))

\* operator>>(int&) (num_get): skips whitespace, takes an optional sign and
\* the digits that follow.  If the sentry fails, v is untouched; if no digit
\* is found, failbit is set and v becomes 0; running into the end of the
\* file while reading digits sets eofbit.
ReadInt(t, s, v) ==
    With(Sentry(t, s), LAMBDA se :
        IF ~se.ok THEN [s |-> se.s, v |-> v, ok |-> FALSE]
        ELSE ReadNumberAt(t, se.s.pos))

\* operator>>(float&), on integer literals.
ReadFloat(t, s, v) == ReadInt(t, s, v)


\* safe_get_line (objfile.cc:16): reads from the stream buffer up to CR, LF,
\* CRLF or the end of the file, whatever the stream's flags; the sentry it
\* constructs sets failbit on a stream that is not good, and the end of the
\* file sets no flag.
RECURSIVE LineEnd(_, _)
LineEnd(t, i) ==
    IF i <= Len(t) /\ CharAt(t, i) \notin {"\r", "\n"} THEN LineEnd(t, i + 1) ELSE i

\* A faulty variant of safe_get_line that takes the character after a CR
\* whatever it is.
safe_get_line_CrTakesNext(t, s) ==
    With(LineEnd(t, s.pos), LAMBDA q :
        [s |-> [pos |-> IF q > Len(t) THEN q
                        ELSE IF CharAt(t, q) = "\r" /\ q < Len(t) THEN q + 2
                        ELSE q + 1,
                eof |-> s.eof, fail |-> s.fail \/ ~Good(s)],
         line |-> SubSeq(t, s.pos, q - 1)])

safe_get_line(t, s) ==
    LET q == LineEnd(t, s.pos)
        next == IF q > Len(t) THEN q
                ELSE IF CharAt(t, q) = "\r" /\ CharAt(t, q + 1) = "\n" THEN q + 2
                ELSE q + 1
    IN [s |-> [pos |-> next, eof |-> s.eof, fail |-> s.fail \/ ~Good(s)],
        line |-> SubSeq(t, s.pos, q - 1)]

(***************************************************************************)
(* Program constants                                                       *)
(***************************************************************************)

\* face_vertices.resize(8) in read_face.
FaceBufLen == 8

\* line.substr(pos + 6) in read_material, read_material_lib and the
\* read_map_K and read_newmtl cases of MaterialLibrary::load.
KeywordSkip == 6

\* The minimum number of corners of a face (num_face_vertices < 3).
MinCorners == 3

(***************************************************************************)
(* ObjModel::read_vec3, read_vec2                                          *)
(***************************************************************************)

\* math::Vec3f vec; file >> vec[0] >> vec[1] >> vec[2]: a component that is
\* not read keeps its uninitialised value.
read_vec3(t, s) ==
    With(ReadFloat(t, s, G), LAMBDA a :
    With(ReadFloat(t, a.s, G), LAMBDA b :
    With(ReadFloat(t, b.s, G), LAMBDA c :
        [s |-> c.s, v |-> <<a.v, b.v, c.v>>])))

read_vec2(t, s) ==
    With(ReadFloat(t, s, G), LAMBDA a :
    With(ReadFloat(t, a.s, G), LAMBDA b :
        [s |-> b.s, v |-> <<a.v, b.v>>]))

(***************************************************************************)
(* ObjModel::read_face                                                     *)
(***************************************************************************)

IsBlank(c) == c \in {" ", "\t"}

IsEol(c) == c \in {"\n", "\r"}

\* The index of the first character at or after i that is no blank.
RECURSIVE SkipBlanks(_, _)
SkipBlanks(t, i) ==
    IF i <= Len(t) /\ IsBlank(CharAt(t, i)) THEN SkipBlanks(t, i + 1) ELSE i

\* do { file.get(c); } while (c == ' ' || c == '\t');  A get that fails
\* leaves c as it was, so the loop spins for ever (spin) when the stream
\* fails while c holds a blank.  p: the first character that is no blank.
SkipBlanksTo(t, s, c, p) ==
    IF p <= Len(t)
    THEN [s |-> [s EXCEPT !.pos = p + 1], c |-> CharAt(t, p), spin |-> FALSE]
    ELSE [s |-> [pos |-> p, eof |-> TRUE, fail |-> TRUE],
          c |-> IF p > s.pos THEN CharAt(t, p - 1) ELSE c,
          spin |-> IF p > s.pos THEN IsBlank(CharAt(t, p - 1)) ELSE IsBlank(c)]

SkipBlanksLoop(t, s, c) ==
    IF ~Good(s) THEN [s |-> [s EXCEPT !.fail = TRUE], c |-> c, spin |-> IsBlank(c)]
    ELSE SkipBlanksTo(t, s, c, SkipBlanks(t, s.pos))

\* FatVertexIndex
Fvi(v, tc, n) == [vertex |-> v, tex_coords |-> tc, normal |-> n]

\* A faulty variant of ReadCornerNormal that stores the third segment as the
\* texcoord index and the second as the normal index.
ReadCornerNormal_Swapped(t, s, c, v, tc) ==
    IF c = "/"
    THEN With(ReadInt(t, s, -1), LAMBDA rn : [s |-> rn.s, c |-> c, fvi |-> Fvi(v, rn.v, tc)])
    ELSE [s |-> s, c |-> c, fvi |-> Fvi(v, -1, tc)]

\* if (c == '/') file >> fvi.normal  (objfile.cc:431-434), after the
\* position v and the texcoord tc of the corner.
ReadCornerNormal(t, s, c, v, tc) ==
    IF c = "/"
    THEN With(ReadInt(t, s, -1), LAMBDA rn : [s |-> rn.s, c |-> c, fvi |-> Fvi(v, tc, rn.v)])
    ELSE [s |-> s, c |-> c, fvi |-> Fvi(v, tc, -1)]

\* One corner token (objfile.cc:411-435), entered after the unget that puts
\* its first character c0 back: v, v/t, v/t/n or v//n.
ReadCorner(t, s0, c0) ==
    With(ReadInt(t, s0, -1), LAMBDA rv :
    With(Get(t, rv.s, c0), LAMBDA g1 :
        IF g1.c # "/" THEN [s |-> g1.s, c |-> g1.c, fvi |-> Fvi(rv.v, -1, -1)]
        ELSE With(Get(t, g1.s, g1.c), LAMBDA g2 :
                 IF g2.c # "/"
                 THEN With(ReadInt(t, Unget(g2.s), -1), LAMBDA rt :
                      With(Get(t, rt.s, g2.c), LAMBDA g3 :
                          ReadCornerNormal(t, g3.s, g3.c, rv.v, rt.v)))
                 ELSE ReadCornerNormal(t, g2.s, g2.c, rv.v, -1))))

\* The while (true) loop of read_face.  st = "break": the loop was left at a
\* line end; "spin": the do-while never ends; "overrun": the stream has
\* failed while c holds neither a blank nor a line end, so every further
\* iteration stores one more corner (-1,-1,-1) and the loop never ends.
RECURSIVE ReadCorners(_, _, _, _)
ReadCorners(t, s, c, fv) ==
    With(SkipBlanksLoop(t, s, c), LAMBDA d :
        IF d.spin THEN [st |-> "spin", s |-> d.s, fv |-> fv]
        ELSE With(Get(t, Unget(d.s), d.c), LAMBDA g :
                 IF IsEol(g.c) THEN [st |-> "break", s |-> g.s, fv |-> fv]
                 ELSE IF ~Good(s) THEN [st |-> "overrun", s |-> g.s, fv |-> fv]
                 ELSE With(ReadCorner(t, Unget(g.s), g.c), LAMBDA k :
                          ReadCorners(t, k.s, k.c, Append(fv, k.fvi)))))

\* ModelFace f of the fan triangle (c0, c[i+1], c[i+2]), i 0-based.
FanFace(fv, i) ==
    [vertices |-> <<fv[1].vertex, fv[i + 2].vertex, fv[i + 3].vertex>>,
     tex_coords |-> <<fv[1].tex_coords, fv[i + 2].tex_coords, fv[i + 3].tex_coords>>,
     normals |-> <<fv[1].normal, fv[i + 2].normal, fv[i + 3].normal>>]

\* for (int i = 0; i < num_face_vertices - 2; ++i) faces.push_back(f)
Triangulate(fv) == [i \in 1..(Len(fv) - 2) |-> FanFace(fv, i - 1)]

\* read_face as a whole: the corners read, how the loop ended, whether a
\* corner was stored beyond the 8 allocated slots, and the faces to append.
\* ret is the function's return value where it returns.
read_face(t, s) ==
    With(ReadCorners(t, s, "/", <<>>), LAMBDA r :
        [st |-> r.st, s |-> r.s, fv |-> r.fv,
         overflow |-> r.st = "overrun" \/ Len(r.fv) > FaceBufLen,
         ret |-> r.st = "break" /\ Len(r.fv) >= MinCorners,
         faces |-> IF r.st = "break" /\ Len(r.fv) >= MinCorners
                   THEN Triangulate(r.fv) ELSE <<>>])

(***************************************************************************)
(* Material, MaterialLibrary                                               *)
(***************************************************************************)

\* Material::reset(): completely absorbing.
Material_reset ==
    [identifier |-> "", diffuse_texture |-> "",
     diffuse |-> <<0, 0, 0, 0>>, ambient |-> <<0, 0, 0, 0>>,
     specular |-> <<0, 0, 0, 0>>, emissive |-> <<0, 0, 0, 0>>,
     shininess |-> 1]

\* currMat.reset(); currMat.identifier = "default"
DefaultMaterial == [Material_reset EXCEPT !.identifier = "default"]

\* The null pointer get_material returns for an id that is not in the library.
NULL == [identifier |-> "<null>"]

\* MaterialLibrary::get_material(id)
get_material(mats, id) == IF id >= 0 /\ id < Len(mats) THEN mats[id + 1] ELSE NULL

\* MaterialLibrary::get_material_idx_by_name(name)
get_material_idx_by_name(ids, name) == IF name \in DOMAIN ids THEN ids[name] ELSE -1

\* MaterialLibrary::add_material(mat): materials.push_back(mat);
\* material_ids[mat->identifier] = materials.size() - 1
add_material(lib, mat) ==
    [materials |-> Append(lib.materials, mat),
     material_ids |-> [n \in (DOMAIN lib.material_ids) \cup {mat.identifier} |->
                          IF n = mat.identifier THEN Len(lib.materials)
                          ELSE lib.material_ids[n]]]

(***************************************************************************)
(* The inputs                                                              *)
(***************************************************************************)

\* The lines a geometry file is made of, without their terminators.
GeoLines ==
    << "v 1 0 0",                    \*  1  position
       "vt 0 1",                     \*  2  texture coordinate
       "vn 0 0 1",                   \*  3  normal
       "f 1 2 3",                    \*  4  triangle, corners v
       "f 1/1 2/2 3/3",              \*  5  triangle, corners v/t
       "f 1//1 2//2 3//3",           \*  6  triangle, corners v//n
       "f 1 2/3 4/5/6 7//8",         \*  7  quad, one corner of each form
       "f 1 2",                      \*  8  two corners
       "usemtl a",                   \*  9  a material the library file defines
       "mtllib m",                   \* 10  the material library
       "# c",                        \* 11  a comment
       "v 0 0 0",                    \* 12  the unit square, with line 1 as
       "v 1 1 0",                    \* 13  its second corner
       "v 0 1 0",                    \* 14
       "f 1 2 3 4",                  \* 15  quad
       "f 1 2 3 4 5 6 7 8 9",        \* 16  nine corners
       "f",                          \* 17  no corner
       "f 1",                        \* 18  one corner
       "usemtl b",                   \* 19  a material of some library files
       "vp 1 2 3",                   \* 20  a directive that begins with v
       "usemap x",                   \* 21  a directive that begins with u
       "f 1 2 3 ",                   \* 22  triangle, a blank after the last corner
       "f a b c" >>                  \* 23  corners that are no numbers

\* The corners written on each line of GeoLines (<<>> where it is no face
\* line), as <<position, texcoord, normal>> with -1 for an absent segment.
GeoCorners ==
    << <<>>, <<>>, <<>>,
       << <<1, -1, -1>>, <<2, -1, -1>>, <<3, -1, -1>> >>,
       << <<1, 1, -1>>, <<2, 2, -1>>, <<3, 3, -1>> >>,
       << <<1, -1, 1>>, <<2, -1, 2>>, <<3, -1, 3>> >>,
       << <<1, -1, -1>>, <<2, 3, -1>>, <<4, 5, 6>>, <<7, -1, 8>> >>,
       << <<1, -1, -1>>, <<2, -1, -1>> >>,
       <<>>, <<>>, <<>>, <<>>, <<>>, <<>>,
       << <<1, -1, -1>>, <<2, -1, -1>>, <<3, -1, -1>>, <<4, -1, -1>> >>,
       << <<1, -1, -1>>, <<2, -1, -1>>, <<3, -1, -1>>, <<4, -1, -1>>,
          <<5, -1, -1>>, <<6, -1, -1>>, <<7, -1, -1>>, <<8, -1, -1>>,
          <<9, -1, -1>> >>,
       <<>>,
       << <<1, -1, -1>> >>,
       <<>>, <<>>, <<>>,
       << <<1, -1, -1>>, <<2, -1, -1>>, <<3, -1, -1>> >>,
       <<>> >>

IsFaceLine(id) == id \in {4, 5, 6, 7, 8, 15, 16, 17, 18, 22, 23}

IsUsemtlLine(id) == id \in {9, 19}

IsMtllibLine(id) == id = 10

\* The lines every file of up to MaxLines lines is drawn from.
Menu == 1..11

\* The length of the files drawn from the menu.
MaxLines == 3

\* The directory of the geometry file (util::fs::get_path_component).
ObjDir == "d"

\* The content of the material library d/m; Missing: no such file.
Missing == "<missing>"

MtlRich ==
    "newmtl a\nKa 1 1 1\nKd 2 4 6\nKs 3 3 3\nKe 0 0 0\nNs 5\nmap_Kd t\n"

\* Two materials, b before a.
MtlTwo == "newmtl b\nKd 1 2 3\nnewmtl a\nNs 2\n"

\* An attribute before the first newmtl line.
MtlPre == "Kd 1 2 3\nnewmtl a\n"

\* A material named default.
MtlDefault == "newmtl default\nKd 1 2 3\n"

\* Directives that are none of newmtl, Ka, Kd, Ks, Ke, Ns, map_Kd and begin
\* with N and with K.
MtlNi == "newmtl a\nNi 7\n"

MtlKx == "newmtl a\nKx 1 1 1\nKd 2 4 6\n"

\* A map_Kd line without file name.
MtlBad == "newmtl a\nmap_Kd\n"

\* A Kd line whose value is not a number, before a shininess line.
MtlBadKd == "newmtl a\nKd x\nNs 5\n"

MtlFiles ==
    {Missing, MtlRich, MtlTwo, MtlPre, MtlDefault, MtlNi, MtlKx, MtlBad, MtlBadKd}

\* The file system: the content of the file of that name, or Missing.
FileAt(name, mtl) == IF name = ObjDir \o "/m" THEN mtl ELSE Missing

\* The text of a file: its lines, each followed by the terminator eol,
\* except the last one when term is FALSE.
RECURSIVE Render(_, _, _)
Render(script, eol, term) ==
    IF script = <<>> THEN ""
    ELSE GeoLines[Head(script)]
         \o (IF Len(script) > 1 \/ term THEN eol ELSE "")
         \o Render(Tail(script), eol, term)

Scripts(n) == UNION {[1..k -> Menu] : k \in 0..n}

\* Files with more lines, or with a last line that has no terminator.
Scenarios ==
    { [script |-> <<12, 1, 13, 14, 15>>, eol |-> "\n", term |-> TRUE],
      [script |-> <<12, 1, 13, 14, 15>>, eol |-> "\r\n", term |-> TRUE],
      [script |-> <<16>>, eol |-> "\n", term |-> TRUE],
      [script |-> <<16, 11>>, eol |-> "\r\n", term |-> TRUE],
      [script |-> <<17>>, eol |-> "\n", term |-> TRUE],
      [script |-> <<18, 11>>, eol |-> "\r\n", term |-> TRUE],
      [script |-> <<8>>, eol |-> "\n", term |-> FALSE],
      [script |-> <<4>>, eol |-> "\n", term |-> FALSE],
      [script |-> <<10, 1, 6, 9>>, eol |-> "\n", term |-> TRUE],
      [script |-> <<20>>, eol |-> "\n", term |-> TRUE],
      [script |-> <<21>>, eol |-> "\n", term |-> TRUE],
      [script |-> <<1, 21, 1>>, eol |-> "\n", term |-> TRUE],
      [script |-> <<10, 9, 19>>, eol |-> "\n", term |-> TRUE],
      [script |-> <<10, 19, 6, 9>>, eol |-> "\r\n", term |-> TRUE],
      [script |-> <<10, 1, 12, 13, 2, 2, 2, 9, 5, 19, 5>>, eol |-> "\r\n",
       term |-> TRUE],
      [script |-> <<22>>, eol |-> "\n", term |-> FALSE],
      [script |-> <<22>>, eol |-> "\r\n", term |-> TRUE],
      [script |-> <<23>>, eol |-> "\n", term |-> TRUE],
      [script |-> <<23, 1>>, eol |-> "\r\n", term |-> TRUE] }

Inputs ==
    {[script |-> sc, eol |-> e, term |-> TRUE] : sc \in Scripts(MaxLines),
                                                 e \in {"\n", "\r\n"}}
    \cup Scenarios

HasLine(script, P(_)) == \E i \in 1..Len(script) : P(script[i])


(***************************************************************************)
(* State                                                                   *)
(***************************************************************************)

VARIABLES
    input,              \* the geometry file as lines: [script, eol, term]
    objtext,            \* the geometry file's characters
    mtltext,            \* the material library file's characters, or Missing
    pc,                 \* where load_obj_meshes is: "load", "mtl", "build",
                        \* "done" (returned the meshes), "load_failed"
                        \* (ObjModel::load has returned false), "failed" (threw
                        \* util::Exception), "out_of_range" (std::out_of_range
                        \* left it), "crashed" (died on an undefined access),
                        \* "hung" (in a loop that never ends)
    modelfile,          \* ObjModel::load: the stream
    curr_state,         \* ObjModel::load: the parser state
    vertices,           \* ObjModel members
    tex_coords,
    normals,
    faces,
    groups,
    material_lib_name,
    face_vertices,      \* read_face: the corners of the last face line read
    heap_overrun,       \* read_face stored a corner beyond its 8 slots
    materials,          \* MaterialLibrary members
    material_ids,
    mtl_file,           \* MaterialLibrary::load: the stream
    currState,          \* MaterialLibrary::load: the parser state
    currMat,            \* MaterialLibrary::load: the material being read
    mat_name,           \* MaterialLibrary::load: its name
    gi,                 \* load_obj_meshes: the loop index i
    meshes,             \* load_obj_meshes: the list it returns
    line_file,          \* safe_get_line on its own: the characters of the file
    line_is,            \* the stream is
    line_t,             \* the string t after the last call
    line_calls          \* the number of calls made

inputVars == <<input, objtext, mtltext>>

modelVars == <<vertices, tex_coords, normals, faces, groups, material_lib_name>>

faceVars == <<face_vertices, heap_overrun>>

libVars == <<materials, material_ids>>

mtlVars == <<mtl_file, currState, currMat, mat_name>>

buildVars == <<gi, meshes>>

lineVars == <<line_file, line_is, line_t, line_calls>>

vars == <<input, objtext, mtltext, pc, modelfile, curr_state, vertices, tex_coords,
          normals, faces, groups, material_lib_name, face_vertices, heap_overrun,
          materials, material_ids, mtl_file, currState, currMat, mat_name, gi, meshes,
          line_file, line_is, line_t, line_calls>>

\* The value of a local variable that is not in scope.
NoState == "-"

\* load_obj_meshes up to the first test of `while (modelfile)`: an empty
\* model and library, the geometry file opened.  (Every modelled geometry
\* file exists.)
Init ==
    /\ input \in Inputs
    /\ objtext = Render(input.script, input.eol, input.term)
    /\ mtltext \in (IF HasLine(input.script, IsMtllibLine) THEN MtlFiles ELSE {Missing})
    /\ pc = "load"
    /\ modelfile = OpenStream
    /\ curr_state = "start"
    /\ vertices = <<>> /\ tex_coords = <<>> /\ normals = <<>>
    /\ faces = <<>> /\ groups = <<>>
    /\ material_lib_name = ""
    /\ face_vertices = <<>> /\ heap_overrun = FALSE
    /\ materials = <<>> /\ material_ids = <<>>
    /\ mtl_file = OpenStream /\ currState = NoState
    /\ currMat = Material_reset /\ mat_name = ""
    /\ gi = 0 /\ meshes = <<>>
    /\ line_file = "" /\ line_is = OpenStream /\ line_t = "" /\ line_calls = 0

(***************************************************************************)
(* ObjModel::load                                                          *)
(***************************************************************************)

\* What an uninitialised char may hold when the read into it failed: one
\* character for each way the switch on it can go.
IndetChars == {"v", "f", "m", "u", "t", "n", "#"}

\* case start: the next non-space character picks the handler; any other
\* discards the rest of the line.  (case '\r' cannot be taken: operator>>
\* skips it as whitespace.)
load_start ==
    /\ pc = "load" /\ StreamOk(modelfile) /\ curr_state = "start"
    /\ LET r == ReadChar(objtext, modelfile, G)
       IN \E c \in (IF r.ok THEN {r.c} ELSE IndetChars) :
            /\ curr_state' = (CASE c = "v" -> "have_v"
                                [] c = "f" -> "read_f"
                                [] c = "m" -> "read_mtllib"
                                [] c = "u" -> "read_usemtl"
                                [] OTHER -> "start")
            /\ modelfile' = IF c \in {"v", "f", "m", "u", "\r"} THEN r.s
                            ELSE safe_get_line(objtext, r.s).s
    /\ UNCHANGED <<lineVars, inputVars, pc, modelVars, faceVars, libVars, mtlVars, buildVars>>

\* case have_v: t -> read_vt, n -> read_vn, anything else reads a position.
load_have_v ==
    /\ pc = "load" /\ StreamOk(modelfile) /\ curr_state = "have_v"
    /\ \E g \in {Get(objtext, modelfile, G)} :
       \E c \in (IF g.ok THEN {g.c} ELSE IndetChars) :
            IF c = "t"
            THEN /\ curr_state' = "read_vt" /\ modelfile' = g.s
                 /\ UNCHANGED vertices
            ELSE IF c = "n"
            THEN /\ curr_state' = "read_vn" /\ modelfile' = g.s
                 /\ UNCHANGED vertices
            ELSE \E r \in {read_vec3(objtext, g.s)} :
                    /\ vertices' = Append(vertices, r.v)
                    /\ modelfile' = r.s
                    /\ curr_state' = "start"
    /\ UNCHANGED <<lineVars, inputVars, pc, tex_coords, normals, faces, groups,
                   material_lib_name, faceVars, libVars, mtlVars, buildVars>>

\* case read_vt
load_read_vt ==
    /\ pc = "load" /\ StreamOk(modelfile) /\ curr_state = "read_vt"
    /\ LET r == read_vec2(objtext, modelfile)
       IN /\ tex_coords' = Append(tex_coords, r.v)
          /\ modelfile' = r.s
    /\ curr_state' = "start"
    /\ UNCHANGED <<lineVars, inputVars, pc, vertices, normals, faces, groups,
                   material_lib_name, faceVars, libVars, mtlVars, buildVars>>

\* case read_vn
load_read_vn ==
    /\ pc = "load" /\ StreamOk(modelfile) /\ curr_state = "read_vn"
    /\ LET r == read_vec3(objtext, modelfile)
       IN /\ normals' = Append(normals, r.v)
          /\ modelfile' = r.s
    /\ curr_state' = "start"
    /\ UNCHANGED <<lineVars, inputVars, pc, vertices, tex_coords, faces, groups,
                   material_lib_name, faceVars, libVars, mtlVars, buildVars>>

\* case read_f: if (!read_face(modelfile)) return false.  A loop of
\* read_face that never ends either spins without storing anything or
\* stores corners without bound until the process dies; a corner stored
\* beyond the 8 slots of a line that does end is an undefined write, after
\* which the process dies or carries on.
load_read_f ==
    /\ pc = "load" /\ StreamOk(modelfile) /\ curr_state = "read_f"
    /\ \E r \in {read_face(objtext, modelfile)} :
          /\ modelfile' = r.s
          /\ face_vertices' = r.fv
          /\ heap_overrun' = (heap_overrun \/ r.overflow)
          /\ \E dies \in (IF r.st = "overrun" THEN {TRUE}
                          ELSE IF r.overflow THEN {TRUE, FALSE} ELSE {FALSE}) :
               IF r.st = "spin"
               THEN pc' = "hung" /\ UNCHANGED <<faces, curr_state>>
               ELSE IF dies
               THEN pc' = "crashed" /\ UNCHANGED <<faces, curr_state>>
               ELSE IF ~r.ret
               THEN pc' = "load_failed" /\ UNCHANGED <<faces, curr_state>>
               ELSE /\ faces' = faces \o r.faces
                    /\ curr_state' = "start"
                    /\ UNCHANGED pc
    /\ UNCHANGED <<lineVars, inputVars, vertices, tex_coords, normals, groups,
                   material_lib_name, libVars, mtlVars, buildVars>>

\* groups.back().end = faces.size()
CloseLastGroup(gs, nfaces) ==
    IF gs = <<>> THEN gs ELSE [gs EXCEPT ![Len(gs)].end = nfaces]

\* A faulty variant of OpenGroup that stores the index as looked up.
OpenGroup_KeepId(gs, nfaces, materialId) ==
    Append(gs, [start |-> nfaces, end |-> G, material_id |-> materialId])

\* Group g; g.start = faces.size(); g.material_id = ...; groups.push_back(g)
\* (g.end is not set until the group is closed.)
OpenGroup(gs, nfaces, materialId) ==
    Append(gs, [start |-> nfaces, end |-> G,
                material_id |-> IF materialId # -1 THEN materialId ELSE 0])

\* ObjModel::read_material: the groups after a usemtl line whose remainder
\* is line and holds "semtl" at pos.
read_material(gs, nfaces, ids, line, pos) ==
    OpenGroup(CloseLastGroup(gs, nfaces), nfaces,
              get_material_idx_by_name(ids, StrSubstr(line, pos + KeywordSkip)))

\* case read_usemtl: if (!read_material(modelfile, mtl_lib)) return false.
\* substr throws std::out_of_range when pos + 6 is beyond the line.
load_read_usemtl ==
    /\ pc = "load" /\ StreamOk(modelfile) /\ curr_state = "read_usemtl"
    /\ LET l == safe_get_line(objtext, modelfile)
           pos == StrFind(l.line, "semtl")
       IN /\ modelfile' = l.s
          /\ IF pos = -1
             THEN pc' = "load_failed" /\ UNCHANGED <<groups, curr_state>>
             ELSE IF pos + KeywordSkip > Len(l.line)
             THEN /\ pc' = "out_of_range"
                  /\ groups' = CloseLastGroup(groups, Len(faces))
                  /\ UNCHANGED curr_state
             ELSE /\ groups' = read_material(groups, Len(faces), material_ids,
                                             l.line, pos)
                  /\ curr_state' = "start"
                  /\ UNCHANGED pc
    /\ UNCHANGED <<lineVars, inputVars, vertices, tex_coords, normals, faces,
                   material_lib_name, faceVars, libVars, mtlVars, buildVars>>


\* A faulty variant of CanOpen for which every file opens.
CanOpen_Always(name, mtl) == TRUE

\* std::ifstream mtl_file(_file.c_str()); !mtl_file.fail()
CanOpen(name, mtl) == FileAt(name, mtl) # Missing

\* MaterialLibrary::load up to its loop (objfile.cc:141-153): the default
\* material is added when the library has no slot 0.
EnsureDefault(lib) ==
    IF get_material(lib.materials, 0) = NULL THEN add_material(lib, DefaultMaterial)
    ELSE lib

\* case read_mtllib: if (!read_material_lib(...)) return false.  A line
\* without "tllib" is reported and skipped; otherwise the library file
\* prefix/path is loaded: load returns false when it cannot be opened.
load_read_mtllib ==
    /\ pc = "load" /\ StreamOk(modelfile) /\ curr_state = "read_mtllib"
    /\ LET l == safe_get_line(objtext, modelfile)
           pos == StrFind(l.line, "tllib")
           name == ObjDir \o "/" \o StrSubstr(l.line, pos + KeywordSkip)
           lib == EnsureDefault([materials |-> materials, material_ids |-> material_ids])
       IN /\ modelfile' = l.s
          /\ IF pos = -1
             THEN /\ curr_state' = "start"
                  /\ UNCHANGED <<pc, material_lib_name, libVars, mtlVars>>
             ELSE IF pos + KeywordSkip > Len(l.line)
             THEN /\ pc' = "out_of_range"
                  /\ UNCHANGED <<curr_state, material_lib_name, libVars, mtlVars>>
             ELSE IF ~CanOpen(name, mtltext)
             THEN /\ pc' = "load_failed"
                  /\ material_lib_name' = name
                  /\ UNCHANGED <<curr_state, libVars, mtlVars>>
             ELSE /\ pc' = "mtl"
                  /\ material_lib_name' = name
                  /\ materials' = lib.materials
                  /\ material_ids' = lib.material_ids
                  /\ mtl_file' = OpenStream
                  /\ currState' = "start"
                  /\ currMat' = DefaultMaterial
                  /\ mat_name' = "default"
                  /\ UNCHANGED curr_state
    /\ UNCHANGED <<lineVars, inputVars, vertices, tex_coords, normals, faces, groups,
                   faceVars, buildVars>>

\* The end of ObjModel::load (objfile.cc:679-701): the groups.
EndGroups(gs, nfaces) ==
    IF gs # <<>> THEN CloseLastGroup(gs, nfaces)
    ELSE <<[start |-> 0, end |-> nfaces, material_id |-> 0]>>

\* A faulty variant of EndLibrary that never adds the default material.
EndLibrary_Skipped(gs, lib) == lib

\* The end of ObjModel::load: the library.  The default material is added
\* only when no group was opened and the library is empty.
EndLibrary(gs, lib) ==
    IF gs = <<>> /\ Len(lib.materials) = 0 THEN add_material(lib, DefaultMaterial)
    ELSE lib

\* `while (modelfile)` is false: the groups are finished and load returns
\* true; load_obj_meshes goes on to its loop over the groups.
load_exit ==
    /\ pc = "load" /\ ~StreamOk(modelfile)
    /\ groups' = EndGroups(groups, Len(faces))
    /\ LET lib == EndLibrary(groups, [materials |-> materials,
                                      material_ids |-> material_ids])
       IN materials' = lib.materials /\ material_ids' = lib.material_ids
    /\ pc' = "build"
    /\ curr_state' = NoState
    /\ gi' = 0
    /\ UNCHANGED <<lineVars, inputVars, modelfile, vertices, tex_coords, normals, faces,
                   material_lib_name, faceVars, mtlVars, meshes>>

(***************************************************************************)
(* MaterialLibrary::load                                                   *)
(***************************************************************************)

\* case start
mtl_start ==
    /\ pc = "mtl" /\ StreamOk(mtl_file) /\ currState = "start"
    /\ LET r == ReadChar(mtltext, mtl_file, G)
       IN \E c \in (IF r.ok THEN {r.c} ELSE {"K", "n", "m", "N", "#"}) :
            /\ currState' = (CASE c = "K" -> "have_K"
                               [] c = "n" -> "read_newmtl"
                               [] c = "m" -> "read_map_K"
                               [] c = "N" -> "read_Ns"
                               [] OTHER -> "start")
            /\ mtl_file' = IF c \in {"K", "n", "m", "N"} THEN r.s
                           ELSE safe_get_line(mtltext, r.s).s
    /\ UNCHANGED <<lineVars, inputVars, pc, modelfile, curr_state, modelVars, faceVars,
                   libVars, currMat, mat_name, buildVars>>

\* case have_K: the default case discards the line and leaves the state
\* have_K.
mtl_have_K ==
    /\ pc = "mtl" /\ StreamOk(mtl_file) /\ currState = "have_K"
    /\ LET r == ReadChar(mtltext, mtl_file, G)
       IN \E c \in (IF r.ok THEN {r.c} ELSE {"a", "d", "s", "e", "#"}) :
            /\ currState' = (CASE c = "a" -> "read_Ka"
                               [] c = "d" -> "read_Kd"
                               [] c = "s" -> "read_Ks"
                               [] c = "e" -> "read_Ke"
                               [] OTHER -> "have_K")
            /\ mtl_file' = IF c \in {"a", "d", "s", "e"} THEN r.s
                           ELSE safe_get_line(mtltext, r.s).s
    /\ UNCHANGED <<lineVars, inputVars, pc, modelfile, curr_state, modelVars, faceVars,
                   libVars, currMat, mat_name, buildVars>>

\* math::Vec4f vec; mtl_file >> vec[0] >> vec[1] >> vec[2]; vec[3] = 1.0f
read_color(t, s) ==
    LET r == read_vec3(t, s)
    IN [s |-> r.s, v |-> <<r.v[1], r.v[2], r.v[3], 1>>]

\* case read_Ka
mtl_read_Ka ==
    /\ pc = "mtl" /\ StreamOk(mtl_file) /\ currState = "read_Ka"
    /\ LET r == read_color(mtltext, mtl_file)
       IN mtl_file' = r.s /\ currMat' = [currMat EXCEPT !.ambient = r.v]
    /\ currState' = "start"
    /\ UNCHANGED <<lineVars, inputVars, pc, modelfile, curr_state, modelVars, faceVars,
                   libVars, mat_name, buildVars>>

\* case read_Ke
mtl_read_Ke ==
    /\ pc = "mtl" /\ StreamOk(mtl_file) /\ currState = "read_Ke"
    /\ LET r == read_color(mtltext, mtl_file)
       IN mtl_file' = r.s /\ currMat' = [currMat EXCEPT !.emissive = r.v]
    /\ currState' = "start"
    /\ UNCHANGED <<lineVars, inputVars, pc, modelfile, curr_state, modelVars, faceVars,
                   libVars, mat_name, buildVars>>

\* case read_Ns: one character is skipped, then the shininess is read.
mtl_read_Ns ==
    /\ pc = "mtl" /\ StreamOk(mtl_file) /\ currState = "read_Ns"
    /\ LET c == ReadChar(mtltext, mtl_file, G)
           r == ReadFloat(mtltext, c.s, currMat.shininess)
       IN mtl_file' = r.s /\ currMat' = [currMat EXCEPT !.shininess = r.v]
    /\ currState' = "start"
    /\ UNCHANGED <<lineVars, inputVars, pc, modelfile, curr_state, modelVars, faceVars,
                   libVars, mat_name, buildVars>>

\* case read_Kd
mtl_read_Kd ==
    /\ pc = "mtl" /\ StreamOk(mtl_file) /\ currState = "read_Kd"
    /\ LET r == read_color(mtltext, mtl_file)
       IN mtl_file' = r.s /\ currMat' = [currMat EXCEPT !.diffuse = r.v]
    /\ currState' = "start"
    /\ UNCHANGED <<lineVars, inputVars, pc, modelfile, curr_state, modelVars, faceVars,
                   libVars, mat_name, buildVars>>

\* case read_Ks
mtl_read_Ks ==
    /\ pc = "mtl" /\ StreamOk(mtl_file) /\ currState = "read_Ks"
    /\ LET r == read_color(mtltext, mtl_file)
       IN mtl_file' = r.s /\ currMat' = [currMat EXCEPT !.specular = r.v]
    /\ currState' = "start"
    /\ UNCHANGED <<lineVars, inputVars, pc, modelfile, curr_state, modelVars, faceVars,
                   libVars, mat_name, buildVars>>

\* case read_map_K: the texture path is what follows "ap_Kd" and one more
\* character; substr throws when there is nothing there, the catch block
\* returns false, and so do read_material_lib and ObjModel::load.
mtl_read_map_K ==
    /\ pc = "mtl" /\ StreamOk(mtl_file) /\ currState = "read_map_K"
    /\ LET l == safe_get_line(mtltext, mtl_file)
           pos == StrFind(l.line, "ap_Kd")
       IN /\ mtl_file' = l.s
          /\ IF pos = -1
             THEN currState' = "start" /\ UNCHANGED <<pc, curr_state, libVars, currMat, mat_name>>
             ELSE IF pos + KeywordSkip > Len(l.line)
             THEN /\ pc' = "load_failed"
                  /\ UNCHANGED <<curr_state, libVars, currState, currMat, mat_name>>
             ELSE /\ currMat' = [currMat EXCEPT
                                   !.diffuse_texture = StrSubstr(l.line, pos + KeywordSkip)]
                  /\ currState' = "start"
                  /\ UNCHANGED <<pc, curr_state, libVars, mat_name>>
    /\ UNCHANGED <<lineVars, inputVars, modelfile, modelVars, faceVars, buildVars>>

\* case read_newmtl: the material read so far is added unless its name is
\* still "default", and a reset material with the new name is started.
mtl_read_newmtl ==
    /\ pc = "mtl" /\ StreamOk(mtl_file) /\ currState = "read_newmtl"
    /\ LET l == safe_get_line(mtltext, mtl_file)
           pos == StrFind(l.line, "ewmtl")
           lib0 == [materials |-> materials, material_ids |-> material_ids]
           lib == IF mat_name # "default" THEN add_material(lib0, currMat) ELSE lib0
       IN /\ mtl_file' = l.s
          /\ IF pos = -1
             THEN currState' = "start" /\ UNCHANGED <<pc, curr_state, libVars, currMat, mat_name>>
             ELSE IF pos + KeywordSkip > Len(l.line)
             THEN /\ pc' = "load_failed"
                  /\ materials' = lib.materials /\ material_ids' = lib.material_ids
                  /\ currMat' = Material_reset
                  /\ UNCHANGED <<curr_state, currState, mat_name>>
             ELSE /\ materials' = lib.materials /\ material_ids' = lib.material_ids
                  /\ mat_name' = StrSubstr(l.line, pos + KeywordSkip)
                  /\ currMat' = [Material_reset EXCEPT
                                   !.identifier = StrSubstr(l.line, pos + KeywordSkip)]
                  /\ currState' = "start"
                  /\ UNCHANGED <<pc, curr_state>>
    /\ UNCHANGED <<lineVars, inputVars, modelfile, modelVars, faceVars, buildVars>>

\* `while (mtl_file)` is false: the last material is added unless its name
\* is still "default", load returns true, and ObjModel::load goes on in its
\* start state.
mtl_exit ==
    /\ pc = "mtl" /\ ~StreamOk(mtl_file)
    /\ LET lib0 == [materials |-> materials, material_ids |-> material_ids]
           lib == IF mat_name # "default" THEN add_material(lib0, currMat) ELSE lib0
       IN materials' = lib.materials /\ material_ids' = lib.material_ids
    /\ pc' = "load"
    /\ curr_state' = "start"
    /\ currState' = NoState /\ currMat' = Material_reset /\ mat_name' = ""
    /\ UNCHANGED <<lineVars, inputVars, modelfile, mtl_file, modelVars, faceVars, buildVars>>


(***************************************************************************)
(* ObjModel::triangle_mesh_from_group                                      *)
(***************************************************************************)

\* v[i0] of a std::vector, i0 0-based: the element, or the indeterminate
\* value of a read outside the vector.
InRange(seq, i0) == i0 >= 0 /\ i0 < Len(seq)

ElemAt(seq, i0, indet) == IF InRange(seq, i0) THEN seq[i0 + 1] ELSE indet

Known3(a) == a[1] \notin {G, NaN} /\ a[2] \notin {G, NaN} /\ a[3] \notin {G, NaN}

\* math::Vec3f operator-
Sub3(a, b) == IF Known3(a) /\ Known3(b) THEN <<a[1] - b[1], a[2] - b[2], a[3] - b[3]>>
              ELSE <<G, G, G>>

\* math::Vec3f::cross
Cross3(a, b) ==
    IF Known3(a) /\ Known3(b)
    THEN <<a[2] * b[3] - a[3] * b[2], a[3] * b[1] - a[1] * b[3], a[1] * b[2] - a[2] * b[1]>>
    ELSE <<G, G, G>>

Abs(x) == IF x < 0 THEN 0 - x ELSE x

RECURSIVE Gcd(_, _)
Gcd(a, b) == IF b = 0 THEN a ELSE Gcd(b, a % b)

\* math::Vec3f::normalized: the unit vector of a's direction, which the
\* model writes as the shortest integer vector of that direction; 0/0 for
\* the zero vector.
Normalized3(a) ==
    IF ~Known3(a) THEN <<G, G, G>>
    ELSE LET d == Gcd(Gcd(Abs(a[1]), Abs(a[2])), Abs(a[3]))
         IN IF d = 0 THEN <<NaN, NaN, NaN>>
            ELSE <<a[1] \div d, a[2] \div d, a[3] \div d>>

\* mve::TriangleMesh::create()
EmptyMesh == [vertices |-> <<>>, faces |-> <<>>, vertex_normals |-> <<>>,
              vertex_texcoords |-> <<>>]

\* i0 is an index into a vector of len elements.
InLen(len, i0) == i0 >= 0 /\ i0 < len

\* normals.push_back(normals[n - 1]) for the three normal indices of f: each
\* reads the model's normals and appends to them.
PushNormals(ns, f) ==
    With(Append(ns, ElemAt(ns, f.normals[1] - 1, <<G, G, G>>)), LAMBDA n1 :
    With(Append(n1, ElemAt(n1, f.normals[2] - 1, <<G, G, G>>)), LAMBDA n2 :
        Append(n2, ElemAt(n2, f.normals[3] - 1, <<G, G, G>>))))

\* One of those three reads is outside the vector.
PushNormalsUb(ns, f) ==
    \/ ~InLen(Len(ns), f.normals[1] - 1)
    \/ ~InLen(Len(ns) + 1, f.normals[2] - 1)
    \/ ~InLen(Len(ns) + 2, f.normals[3] - 1)

\* d1.cross(d2).normalized() of the face's corners, read from the mesh's
\* vertex list mv (objfile.cc:768-770).
FaceNormal(mv, f) ==
    Normalized3(Cross3(Sub3(ElemAt(mv, f.vertices[2] - 1, <<G, G, G>>),
                            ElemAt(mv, f.vertices[1] - 1, <<G, G, G>>)),
                       Sub3(ElemAt(mv, f.vertices[3] - 1, <<G, G, G>>),
                            ElemAt(mv, f.vertices[1] - 1, <<G, G, G>>))))

Thrice(x) == <<x, x, x>>

HasNormals(f) == f.normals[1] # -1 /\ f.normals[2] # -1 /\ f.normals[3] # -1

\* One iteration of the loop over the group's faces (objfile.cc:753-787),
\* for the face f.  b: the model's vertices and normals, the mesh, whether an
\* access was undefined so far, and vertex_idx.  The positions are read from
\* the mesh's vertex list and appended to the model's; the normals, when the
\* face has all three, are read from the model's normals and appended to them.
BuildFace(b, f, tcs, add_tex_coords) ==
    [vertices |-> b.vertices \o [k \in 1..3 |->
                      ElemAt(b.mesh.vertices, f.vertices[k] - 1, <<G, G, G>>)],
     normals |-> IF HasNormals(f) THEN PushNormals(b.normals, f) ELSE b.normals,
     mesh |-> [vertices |-> b.mesh.vertices,
               faces |-> b.mesh.faces \o <<b.vertex_idx, b.vertex_idx + 1,
                                           b.vertex_idx + 2>>,
               vertex_normals |->
                   IF HasNormals(f) THEN b.mesh.vertex_normals
                   ELSE b.mesh.vertex_normals \o Thrice(FaceNormal(b.mesh.vertices, f)),
               vertex_texcoords |->
                   IF add_tex_coords
                   THEN b.mesh.vertex_texcoords \o [k \in 1..3 |->
                            ElemAt(tcs, f.tex_coords[k] - 1, <<G, G>>)]
                   ELSE b.mesh.vertex_texcoords],
     ub |-> \/ b.ub
            \/ \E k \in 1..3 : ~InRange(b.mesh.vertices, f.vertices[k] - 1)
            \/ HasNormals(f) /\ PushNormalsUb(b.normals, f)
            \/ add_tex_coords /\ \E k \in 1..3 : ~InRange(tcs, f.tex_coords[k] - 1),
     vertex_idx |-> b.vertex_idx + 3]

\* The loop over the faces fs[from..to] (1-based) of the group.
RECURSIVE BuildFaces(_, _, _, _, _, _)
BuildFaces(b, fs, from, to, tcs, add_tex_coords) ==
    IF from > to THEN b
    ELSE BuildFaces(BuildFace(b, fs[from], tcs, add_tex_coords), fs, from + 1, to,
                    tcs, add_tex_coords)

\* A faulty variant of AddTexCoords that compares the sizes only.
AddTexCoords_SizesOnly(vs, tcs, fs, g, indet) == Len(tcs) = Len(vs)

\* "are texture coordinates specified?" (objfile.cc:733-741).  The sizes are
\* compared first; only when they agree is the group's first face read, and
\* indet is what that read gives when the face does not exist.
AddTexCoords(vs, tcs, fs, g, indet) ==
    IF Len(tcs) # Len(vs) THEN FALSE
    ELSE IF ~InRange(fs, g.start) THEN indet
    ELSE ~ (\/ fs[g.start + 1].tex_coords[1] = -1
            \/ fs[g.start + 1].tex_coords[2] = -1
            \/ fs[g.start + 1].tex_coords[3] = -1)

\* That read of the group's first face is outside the face array.
FirstFaceUb(vs, tcs, fs, g) == Len(tcs) = Len(vs) /\ ~InRange(fs, g.start)

\* return std::make_pair(mesh, group_material->diffuse_texture), with the
\* model's arrays as the loop left them; a null group_material is an
\* undefined read.
MeshResult(b, group_material) ==
    [mesh |-> b.mesh,
     texture |-> IF group_material = NULL THEN GString
                 ELSE group_material.diffuse_texture,
     vertices |-> b.vertices,
     normals |-> b.normals,
     ub |-> b.ub \/ group_material = NULL]

\* triangle_mesh_from_group(idx, mat_lib), idx 0-based: the mesh and texture
\* it returns, the model's vertices and normals after it, and whether it made
\* an undefined access.
triangle_mesh_from_group(idx, vs, tcs, ns, fs, gs, mats, indet) ==
    MeshResult(BuildFaces([vertices |-> vs, normals |-> ns, mesh |-> EmptyMesh,
                           ub |-> FirstFaceUb(vs, tcs, fs, gs[idx + 1]),
                           vertex_idx |-> 0],
                          fs, gs[idx + 1].start + 1, gs[idx + 1].end, tcs,
                          AddTexCoords(vs, tcs, fs, gs[idx + 1], indet)),
               get_material(mats, gs[idx + 1].material_id))

(***************************************************************************)
(* load_obj_meshes                                                         *)
(***************************************************************************)

\* meshes.push_back(model.triangle_mesh_from_group(i, material_lib)).  After
\* an undefined access the process has died or the call has gone on with
\* indeterminate values.
load_obj_meshes_group ==
    /\ pc = "build" /\ gi < Len(groups)
    /\ \E indet \in BOOLEAN :
         \E r \in {triangle_mesh_from_group(gi, vertices, tex_coords, normals, faces,
                                              groups, materials, indet)} :
            \E dies \in (IF r.ub THEN {TRUE, FALSE} ELSE {FALSE}) :
              IF dies
              THEN pc' = "crashed" /\ UNCHANGED <<vertices, normals, gi, meshes>>
              ELSE /\ vertices' = r.vertices
                   /\ normals' = r.normals
                   /\ meshes' = Append(meshes, [mesh |-> r.mesh, texture |-> r.texture])
                   /\ gi' = gi + 1
                   /\ UNCHANGED pc
    /\ UNCHANGED <<lineVars, inputVars, modelfile, curr_state, tex_coords, faces, groups,
                   material_lib_name, faceVars, libVars, mtlVars>>

\* return meshes
load_obj_meshes_return ==
    /\ pc = "build" /\ gi >= Len(groups)
    /\ pc' = "done"
    /\ UNCHANGED <<lineVars, inputVars, modelfile, curr_state, modelVars, faceVars, libVars,
                   mtlVars, buildVars>>

\* if (!model.load(...)) throw util::Exception("Invalid Obj Model"): the
\* exception leaves load_obj_meshes, and its locals model and material_lib
\* are destroyed.
load_obj_meshes_throw ==
    /\ pc = "load_failed"
    /\ pc' = "failed"
    /\ vertices' = <<>> /\ tex_coords' = <<>> /\ normals' = <<>>
    /\ faces' = <<>> /\ groups' = <<>>
    /\ material_lib_name' = ""
    /\ materials' = <<>> /\ material_ids' = <<>>
    /\ UNCHANGED <<lineVars, inputVars, modelfile, curr_state, faceVars, mtlVars, buildVars>>

Next ==
    \/ load_start
    \/ load_have_v
    \/ load_read_vt
    \/ load_read_vn
    \/ load_read_f
    \/ load_read_usemtl
    \/ load_read_mtllib
    \/ load_exit
    \/ mtl_start
    \/ mtl_have_K
    \/ mtl_read_Ka
    \/ mtl_read_Ke
    \/ mtl_read_Ns
    \/ mtl_read_Kd
    \/ mtl_read_Ks
    \/ mtl_read_map_K
    \/ mtl_read_newmtl
    \/ mtl_exit
    \/ load_obj_meshes_group
    \/ load_obj_meshes_return
    \/ load_obj_meshes_throw

Spec == Init /\ [][Next]_vars

(***************************************************************************)
(* Read errors                                                             *)
(***************************************************************************)

\* A read of the geometry file fails before the end of the file (the stream
\* buffer reports an error and the stream sets badbit): from then on
\* `while (modelfile)` is false.
modelfile_read_error ==
    /\ pc = "load" /\ StreamOk(modelfile)
    /\ modelfile.pos <= Len(objtext)
    /\ modelfile' = [modelfile EXCEPT !.fail = TRUE]
    /\ UNCHANGED <<lineVars, inputVars, pc, curr_state, modelVars, faceVars, libVars, mtlVars,
                   buildVars>>

\* The same for the material library file and `while (mtl_file)`.
mtl_file_read_error ==
    /\ pc = "mtl" /\ StreamOk(mtl_file)
    /\ mtl_file.pos <= Len(mtltext)
    /\ mtl_file' = [mtl_file EXCEPT !.fail = TRUE]
    /\ UNCHANGED <<lineVars, inputVars, pc, modelfile, curr_state, modelVars, faceVars, libVars,
                   currState, currMat, mat_name, buildVars>>

NextIO ==
    \/ Next
    \/ modelfile_read_error
    \/ mtl_file_read_error

\* The importer on files whose reads may fail.
SpecIO == Init /\ [][NextIO]_vars

(***************************************************************************)
(* safe_get_line on any file                                               *)
(***************************************************************************)

\* The characters of the files: one that ends no line, CR and LF.
LineAlphabet == {"a", "\r", "\n"}

\* The length of the files.
MaxText == 5

\* The files of at most n characters.
RECURSIVE Texts(_)
Texts(n) ==
    IF n = 0 THEN {""}
    ELSE With(Texts(n - 1), LAMBDA shorter :
             shorter \cup {x \o c : x \in shorter, c \in LineAlphabet})

\* Calls go on beyond the end of the file.
MaxCalls == MaxText + 2

\* A stream on any file, with any flags, before the first call; the
\* importer itself is not run.
InitLine ==
    /\ line_file \in Texts(MaxText)
    /\ line_is \in [pos : {1}, eof : BOOLEAN, fail : BOOLEAN]
    /\ line_t = "" /\ line_calls = 0
    /\ input = [script |-> <<>>, eol |-> "\n", term |-> TRUE]
    /\ objtext = "" /\ mtltext = Missing
    /\ pc = "lines"
    /\ modelfile = OpenStream
    /\ curr_state = "start"
    /\ vertices = <<>> /\ tex_coords = <<>> /\ normals = <<>>
    /\ faces = <<>> /\ groups = <<>>
    /\ material_lib_name = ""
    /\ face_vertices = <<>> /\ heap_overrun = FALSE
    /\ materials = <<>> /\ material_ids = <<>>
    /\ mtl_file = OpenStream /\ currState = NoState
    /\ currMat = Material_reset /\ mat_name = ""
    /\ gi = 0 /\ meshes = <<>>

\* safe_get_line(is, t)
call_safe_get_line ==
    /\ pc = "lines" /\ line_calls < MaxCalls
    /\ \E r \in {safe_get_line(line_file, line_is)} :
          line_is' = r.s /\ line_t' = r.line
    /\ line_calls' = line_calls + 1
    /\ UNCHANGED <<line_file, inputVars, pc, modelfile, curr_state, modelVars, faceVars,
                   libVars, mtlVars, buildVars>>

NextLine == call_safe_get_line

SpecLine == InitLine /\ [][NextLine]_vars


(***************************************************************************)
(* Properties                                                              *)
(***************************************************************************)

\* ObjModel::load has returned true.
Loaded == pc \in {"build", "done"}

\* The corners written on line id of GeoLines, as FatVertexIndex records.
CornersOf(id) ==
    [i \in 1..Len(GeoCorners[id]) |->
        Fvi(GeoCorners[id][i][1], GeoCorners[id][i][2], GeoCorners[id][i][3])]

\* The fan (c0, c[i+1], c[i+2]), i = 0..n-3, of the corners cs.
FanOf(cs) ==
    IF Len(cs) < 3 THEN <<>>
    ELSE [i \in 1..(Len(cs) - 2) |->
             [vertices |-> <<cs[1].vertex, cs[i + 1].vertex, cs[i + 2].vertex>>,
              tex_coords |-> <<cs[1].tex_coords, cs[i + 1].tex_coords,
                               cs[i + 2].tex_coords>>,
              normals |-> <<cs[1].normal, cs[i + 1].normal, cs[i + 2].normal>>]]

\* The fans of all face lines of a file, in file order.
RECURSIVE FansOf(_)
FansOf(script) ==
    IF script = <<>> THEN <<>>
    ELSE (IF IsFaceLine(Head(script)) THEN FanOf(CornersOf(Head(script))) ELSE <<>>)
         \o FansOf(Tail(script))

CountLines(script, P(_)) == Cardinality({i \in 1..Len(script) : P(script[i])})

IsTriangleLine(id) == id \in {4, 5, 6, 22}

IsShortFaceLine(id) == id \in {8, 17, 18}

\* Lines that hold a position, a texcoord, a normal or a comment.
IsPlainLine(id) == id \in {1, 2, 3, 11, 12, 13, 14}

\* The triangles of all returned meshes.
RECURSIVE SumTriangles(_)
SumTriangles(ms) ==
    IF ms = <<>> THEN 0 ELSE (Len(Head(ms).mesh.faces) \div 3) + SumTriangles(Tail(ms))

\* C1: after a successful load the groups, in file order, partition the face
\* array contiguously: the first starts at 0, each later one starts where the
\* previous one ends, and the last ends at the face count.
C1_GroupsPartitionFaces ==
    Loaded =>
        /\ Len(groups) >= 1
        /\ groups[1].start = 0
        /\ \A i \in 2..Len(groups) : groups[i].start = groups[i - 1].end
        /\ groups[Len(groups)].end = Len(faces)

\* C2: when every face line has three corners and the meshes are returned,
\* the triangles of all meshes together are as many as the face lines.
C2_TriangleCountIsFaceLineCount ==
    (/\ pc = "done"
     /\ \A i \in 1..Len(input.script) :
            IsFaceLine(input.script[i]) => IsTriangleLine(input.script[i]))
    => SumTriangles(meshes) = CountLines(input.script, IsFaceLine)

\* C3: a face line of n >= 3 corners, for any n, appends the n-2 faces of its
\* fan with the indices as written, and read_face writes nothing outside its
\* own arrays.
C3_FanTriangulationAnyN ==
    /\ ~heap_overrun
    /\ Loaded => faces = FansOf(input.script)

\* C4: when the first line that is no position, texcoord, normal or comment
\* is a face line of 0, 1 or 2 corners, the load fails there: load_obj_meshes
\* is either still reading or has signalled the failure, and no face was
\* stored.
C4_ShortFaceLineFailsLoad ==
    (\E k \in 1..Len(input.script) :
        /\ IsShortFaceLine(input.script[k])
        /\ \A j \in 1..(k - 1) : IsPlainLine(input.script[j]))
    => /\ pc \in {"load", "load_failed", "failed"}
       /\ faces = <<>>

\* C5: after a successful load the library holds the default material at slot
\* 0, and every group's material index designates a library entry.
C5_DefaultMaterialAtSlotZero ==
    Loaded =>
        /\ Len(materials) >= 1
        /\ materials[1] = DefaultMaterial
        /\ \A i \in 1..Len(groups) :
               get_material(materials, groups[i].material_id) # NULL

\* C6: every returned mesh has 3 index entries, 3 vertices and 3 normals per
\* face of its group, and as many texcoords when it has texcoords at all.
C6_MeshArraysHaveThreePerFace ==
    \A i \in 1..Len(meshes) :
        /\ Len(meshes[i].mesh.faces) = 3 * (groups[i].end - groups[i].start)
        /\ Len(meshes[i].mesh.vertices) = 3 * (groups[i].end - groups[i].start)
        /\ Len(meshes[i].mesh.vertex_normals) = 3 * (groups[i].end - groups[i].start)
        /\ Len(meshes[i].mesh.vertex_texcoords)
               \in {0, 3 * (groups[i].end - groups[i].start)}

\* C7: building the mesh of a group leaves the model's positions, texcoords,
\* normals, faces and groups as they were.
C7_BuildLeavesModelUnchanged ==
    [][load_obj_meshes_group =>
          UNCHANGED <<vertices, tex_coords, normals, faces, groups>>]_vars

\* C8: for the corner forms v, v/t, v/t/n and v//n, whenever read_face comes
\* back from a face line, the corners it read carry the written position, the
\* written texcoord or -1 where there is none, and the written normal or -1
\* where there is none; and so do the faces of a loaded model.
C8_CornerIndicesAsWritten ==
    (pc \notin {"crashed", "hung"} /\ ~heap_overrun) =>
        /\ \/ face_vertices = <<>>
           \/ \E i \in 1..Len(input.script) :
                 /\ IsFaceLine(input.script[i])
                 /\ face_vertices = CornersOf(input.script[i])
        /\ Loaded => faces = FansOf(input.script)

\* read_face has come back from the line holding one corner of each form.
C8_AllFormsRead ==
    /\ pc = "load" /\ curr_state = "start" /\ ~heap_overrun
    /\ face_vertices = CornersOf(7)
    /\ Len(faces) = 2
    /\ faces[2].tex_coords = <<-1, 5, -1>>
    /\ faces[2].normals = <<-1, 6, 8>>

\* C9: a file without usemtl line that loads has exactly one group, from 0 to
\* the face count with material index 0, and its library holds the default
\* material.
C9_NoUsemtlOneGroup ==
    (Loaded /\ ~HasLine(input.script, IsUsemtlLine)) =>
        /\ groups = <<[start |-> 0, end |-> Len(faces), material_id |-> 0]>>
        /\ Len(materials) >= 1
        /\ materials[1] = DefaultMaterial
        /\ get_material(materials, groups[1].material_id) = DefaultMaterial

\* A file of two faces and no usemtl line has loaded, without library file.
C9_LoadedWithoutUsemtl ==
    /\ pc = "build" /\ gi = 0
    /\ ~HasLine(input.script, IsUsemtlLine)
    /\ ~HasLine(input.script, IsMtllibLine)
    /\ Len(faces) = 2
    /\ Len(materials) = 1

\* C11: a mesh built for a group whose first face has a texcoord index -1
\* holds no texture coordinates, whatever the later faces of the group have.
C11_NoTexcoordsWithoutFirst ==
    \A i \in 1..Len(meshes) :
        (/\ groups[i].end > groups[i].start
         /\ \E k \in 1..3 : faces[groups[i].start + 1].tex_coords[k] = -1)
        => meshes[i].mesh.vertex_texcoords = <<>>

\* The mesh of a group of two faces was returned, the first face without
\* texcoord indices and the second with all three, the model holding as many
\* texcoords as positions when the build began (none of either).
C11_LaterFaceHasTexcoords ==
    /\ pc = "done" /\ Len(meshes) = 1
    /\ input.script = <<4, 5>>
    /\ groups = <<[start |-> 0, end |-> 2, material_id |-> 0]>>
    /\ faces[1].tex_coords = <<-1, -1, -1>>
    /\ faces[2].tex_coords = <<1, 2, 3>>
    /\ Len(meshes[1].mesh.faces) = 6
    /\ meshes[1].mesh.vertex_texcoords = <<>>

\* The number of groups a file asks for: one per usemtl line, or one.
GroupsAskedFor(script) ==
    IF CountLines(script, IsUsemtlLine) = 0 THEN 1 ELSE CountLines(script, IsUsemtlLine)

\* C12: after a successful load, load_obj_meshes comes back (the loop over
\* the groups does not end the process) with one pair per group, in the
\* order of the groups, one group per usemtl line or a single one, and each
\* pair's texture is the diffuse texture of the material of its group.
C12_OnePairPerGroup ==
    /\ ~(pc = "crashed" /\ curr_state = NoState)
    /\ pc = "done" =>
          /\ Len(meshes) = Len(groups)
          /\ Len(groups) = GroupsAskedFor(input.script)
          /\ \A i \in 1..Len(meshes) :
                /\ get_material(materials, groups[i].material_id) # NULL
                /\ meshes[i].texture =
                       get_material(materials, groups[i].material_id).diffuse_texture

\* The parser has read the u of a line "usemtl <name>".
AtUsemtl(name) ==
    /\ modelfile.pos + 6 <= Len(objtext)
    /\ SubSeq(objtext, modelfile.pos, modelfile.pos + 6) = "semtl " \o name

\* C13: a usemtl line that names a material the library does not hold does
\* not end the load: the open group, if any, is closed at the face count, a
\* new group with material index 0 is opened at the face count, the other
\* groups and the faces stay, and the parser is at the start of the next line.
C13_UnresolvedUsemtlOpensGroup ==
    [][\A name \in {"a", "b"} :
          (load_read_usemtl /\ AtUsemtl(name) /\ name \notin DOMAIN material_ids)
          => /\ pc' = "load" /\ curr_state' = "start"
             /\ faces' = faces
             /\ Len(groups') = Len(groups) + 1
             /\ groups'[Len(groups')].start = Len(faces)
             /\ groups'[Len(groups')].material_id = 0
             /\ \A i \in 1..Len(groups) :
                   /\ groups'[i].start = groups[i].start
                   /\ groups'[i].material_id = groups[i].material_id
                   /\ groups'[i].end = IF i = Len(groups) THEN Len(faces)
                                       ELSE groups[i].end
             /\ ~modelfile'.fail
             /\ CharAt(objtext, modelfile'.pos - 1) = "\n"]_vars

\* With a library that holds a but not b: "usemtl a" has opened a group
\* with a's index and "usemtl b" has closed it and opened one with index 0.
C13_UnresolvedAfterResolved ==
    /\ pc = "load" /\ curr_state = "start"
    /\ input.script = <<10, 9, 19>>
    /\ Len(materials) = 2 /\ "b" \notin DOMAIN material_ids
    /\ Len(groups) = 2
    /\ groups[1] = [start |-> 0, end |-> 0, material_id |-> 1]
    /\ groups[2].start = 0 /\ groups[2].material_id = 0

\* Lines whose directive is none of v, vt, vn, f, usemtl, mtllib.
IsIgnoredLine(id) == id \in {11, 20, 21}

IsPositionLine(id) == id \in {1, 12, 13, 14}

\* The position written on a position line of GeoLines.
PositionOf(id) ==
    CASE id = 1 -> <<1, 0, 0>>
      [] id = 12 -> <<0, 0, 0>>
      [] id = 13 -> <<1, 1, 0>>
      [] id = 14 -> <<0, 1, 0>>

\* The positions of a file, in file order.
RECURSIVE PositionsOf(_)
PositionsOf(script) ==
    IF script = <<>> THEN <<>>
    ELSE (IF IsPositionLine(Head(script)) THEN <<PositionOf(Head(script))>> ELSE <<>>)
         \o PositionsOf(Tail(script))

\* C14: in a file of position, texcoord, normal and comment lines and of
\* lines with other directives, also ones that begin with v or u, the load
\* does not fail, and the model it leaves is that of the file without those
\* lines: its positions, as many texcoords and normals as there are vt and vn
\* lines, no face, one group.
C14_UnknownDirectivesIgnored ==
    (\A i \in 1..Len(input.script) :
        IsPlainLine(input.script[i]) \/ IsIgnoredLine(input.script[i]))
    => /\ pc \notin {"load_failed", "failed", "out_of_range"}
       /\ Loaded =>
             /\ vertices = PositionsOf(input.script)
             /\ Len(tex_coords) = Cardinality({i \in 1..Len(input.script) :
                                                  input.script[i] = 2})
             /\ Len(normals) = Cardinality({i \in 1..Len(input.script) :
                                               input.script[i] = 3})
             /\ faces = <<>>
             /\ groups = <<[start |-> 0, end |-> 0, material_id |-> 0]>>

\* MaterialLibrary::load has returned true, for the only mtllib line of the
\* file.
MtlLoadedOnce ==
    /\ CountLines(input.script, IsMtllibLine) = 1
    /\ mtltext # Missing
    /\ material_lib_name # "" /\ currState = NoState

NoColour == <<0, 0, 0, 0>>

\* A material as a library file describes it.
Mat(name, ka, kd, ks, ke, ns, map_Kd) ==
    [identifier |-> name, diffuse_texture |-> map_Kd, diffuse |-> kd, ambient |-> ka,
     specular |-> ks, emissive |-> ke, shininess |-> ns]

\* The library each library file describes: the default material, then one
\* material per newmtl line (and before them the accumulator that was
\* modified before the first newmtl line), lines with other directives
\* ignored.
MtlExpected(file) ==
    <<Mat("default", NoColour, NoColour, NoColour, NoColour, 1, "")>> \o
    (CASE file = MtlRich ->
            <<Mat("a", <<1, 1, 1, 1>>, <<2, 4, 6, 1>>, <<3, 3, 3, 1>>, <<0, 0, 0, 1>>,
                  5, "t")>>
       [] file = MtlTwo ->
            <<Mat("b", NoColour, <<1, 2, 3, 1>>, NoColour, NoColour, 1, ""),
              Mat("a", NoColour, NoColour, NoColour, NoColour, 2, "")>>
       [] file = MtlPre ->
            <<Mat("default", NoColour, <<1, 2, 3, 1>>, NoColour, NoColour, 1, ""),
              Mat("a", NoColour, NoColour, NoColour, NoColour, 1, "")>>
       [] file = MtlDefault ->
            <<Mat("default", NoColour, <<1, 2, 3, 1>>, NoColour, NoColour, 1, "")>>
       [] file = MtlNi ->
            <<Mat("a", NoColour, NoColour, NoColour, NoColour, 1, "")>>
       [] file = MtlKx ->
            <<Mat("a", NoColour, <<2, 4, 6, 1>>, NoColour, NoColour, 1, "")>>
       [] OTHER -> <<>>)

\* C15: a library file with a line whose directive is none of newmtl, Ka,
\* Kd, Ks, Ke, Ns, map_Kd (here one beginning with N and one beginning with
\* K) gives the library of the file without that line.
C15_UnknownMtlDirectivesIgnored ==
    (MtlLoadedOnce /\ mtltext \in {MtlNi, MtlKx}) => materials = MtlExpected(mtltext)

\* C17: when ObjModel::load has returned false, the model and the library
\* hold nothing of what the call had read.
C17_FailedLoadRetainsNothing ==
    pc = "load_failed" =>
        /\ vertices = <<>> /\ tex_coords = <<>> /\ normals = <<>>
        /\ faces = <<>> /\ groups = <<>>
        /\ materials = <<>>

\* The library file of the mtllib line cannot be opened or cannot be parsed.
BadLibrary == mtltext \in {Missing, MtlBad}

\* The position of the model file right after its first mtllib line.
AfterFirstMtllib ==
    With(CHOOSE i \in 1..Len(input.script) :
             /\ IsMtllibLine(input.script[i])
             /\ \A j \in 1..(i - 1) : ~IsMtllibLine(input.script[j]),
         LAMBDA i :
             IF i = Len(input.script) /\ ~input.term THEN Len(objtext) + 1
             ELSE Len(Render(SubSeq(input.script, 1, i), input.eol, TRUE)) + 1)

\* C18: a library file that cannot be opened or parsed makes ObjModel::load
\* return false from the mtllib line: the load never goes on with the model
\* file, whose position stays right after that line, it never succeeds, and
\* load_obj_meshes throws without having built a mesh.
C18_LibraryFailureAbortsLoad ==
    /\ (BadLibrary /\ material_lib_name # "") =>
            /\ pc \in {"mtl", "load_failed"}
            /\ modelfile.pos = AfterFirstMtllib
    /\ (BadLibrary /\ HasLine(input.script, IsMtllibLine)) => ~Loaded
    /\ (BadLibrary /\ pc = "failed") => meshes = <<>>

\* load_obj_meshes has thrown for a library file that cannot be opened, with
\* lines of the model file read before the mtllib line and lines left unread
\* after it.
C18_ThrownWithLinesUnread ==
    /\ pc = "failed" /\ mtltext = Missing
    /\ modelfile.pos > 1
    /\ HasLine(input.script, IsMtllibLine)
    /\ modelfile.pos = AfterFirstMtllib
    /\ modelfile.pos <= Len(objtext)
    /\ ~IsMtllibLine(input.script[1])

\* The colour lines written after a newmtl line, per library file: the name
\* of the material, the attribute and the three values.
MtlColours(file) ==
    CASE file = MtlRich ->
            { <<"a", "ambient", 1, 1, 1>>, <<"a", "diffuse", 2, 4, 6>>,
              <<"a", "specular", 3, 3, 3>>, <<"a", "emissive", 0, 0, 0>> }
      [] file = MtlTwo -> { <<"b", "diffuse", 1, 2, 3>> }
      [] file = MtlDefault -> { <<"default", "diffuse", 1, 2, 3>> }
      [] file = MtlKx -> { <<"a", "diffuse", 2, 4, 6>> }
      [] OTHER -> {}

\* C19: after the library file is loaded, for each line Ka, Kd, Ks or Ke
\* r g b written after a newmtl line the material stored under that name
\* has the colour (r, g, b, 1).
C19_ColourLinesSetRgbAlphaOne ==
    MtlLoadedOnce =>
        \A w \in MtlColours(mtltext) :
            /\ w[1] \in DOMAIN material_ids
            /\ materials[material_ids[w[1]] + 1][w[2]] = <<w[3], w[4], w[5], 1>>

\* C20: after the library file is loaded, the library is the default
\* material followed by one material per newmtl line in file order, with
\* the accumulator modified before the first newmtl line appended too (for
\* library files whose lines all have known directives).
C20_OneMaterialPerNewmtl ==
    (MtlLoadedOnce /\ mtltext \in {MtlRich, MtlTwo, MtlPre, MtlDefault}) =>
        materials = MtlExpected(mtltext)

\* MaterialLibrary::load has returned false from inside its loop.
MtlParserFailed == pc = "load_failed" /\ currState # NoState

\* C21: no line of a library file that can be opened makes
\* MaterialLibrary::load return false, and a shininess line that follows a
\* Kd line without numbers still sets the shininess of its material.
C21_MalformedMtlLineIsNotFatal ==
    /\ ~MtlParserFailed
    /\ (MtlLoadedOnce /\ mtltext = MtlBadKd) =>
            /\ "a" \in DOMAIN material_ids
            /\ materials[material_ids["a"] + 1].shininess = 5

IsTexcoordLine(id) == id = 2

\* The file has as many vt lines as position lines, and no other line that
\* begins with v.
AsManyTexcoordsAsPositions ==
    /\ CountLines(input.script, IsTexcoordLine)
           = CountLines(input.script, IsPositionLine)
    /\ Len(tex_coords) = CountLines(input.script, IsTexcoordLine)
    /\ ~HasLine(input.script, IsIgnoredLine)

\* The texcoord that corner c of the face at index f0 of the model refers
\* to lies in the parsed texcoord array.
TexcoordExists(f0, c) == InRange(tex_coords, faces[f0 + 1].tex_coords[c] - 1)

\* C22: when the file has as many texcoords as positions, every mesh built,
\* the first as well as the later ones, whose group has a first face with
\* its three texcoord indices set holds three texture coordinates per face
\* of the group, each the parsed texcoord its corner refers to.
C22_LaterGroupsGetTexcoords ==
    \A i \in 1..Len(meshes) :
        (/\ AsManyTexcoordsAsPositions
         /\ groups[i].end > groups[i].start
         /\ \A c \in 1..3 : faces[groups[i].start + 1].tex_coords[c] # -1)
        => /\ Len(meshes[i].mesh.vertex_texcoords)
                  = 3 * (groups[i].end - groups[i].start)
           /\ \A f0 \in groups[i].start..(groups[i].end - 1) : \A c \in 1..3 :
                  TexcoordExists(f0, c) =>
                      meshes[i].mesh.vertex_texcoords[3 * (f0 - groups[i].start) + c]
                          = tex_coords[faces[f0 + 1].tex_coords[c]]

\* The character of line_file at index i is a CR that no LF follows.
LoneCrAt(i) == CharAt(line_file, i) = "\r" /\ CharAt(line_file, i + 1) # "\n"

\* C23: a call of safe_get_line at position p returns the characters from p
\* on that come before the next CR, LF or end of the file, none of them a CR
\* or LF, and leaves the stream right after the terminator it met: after the
\* LF, after both characters of a CRLF, after a CR that no LF follows, or at
\* the end of the file, where every further call returns an empty line.
C23_SafeGetLineStopsAtTerminator ==
    [][call_safe_get_line =>
         With(line_is.pos + Len(line_t'), LAMBDA e :
            /\ line_t' = SubSeq(line_file, line_is.pos, e - 1)
            /\ \A i \in line_is.pos..(e - 1) : CharAt(line_file, i) \notin {"\r", "\n"}
            /\ e <= Len(line_file) + 1
            /\ CASE e > Len(line_file) -> line_is'.pos = e
                 [] CharAt(line_file, e) = "\n" -> line_is'.pos = e + 1
                 [] CharAt(line_file, e) = "\r" /\ CharAt(line_file, e + 1) = "\n" ->
                        line_is'.pos = e + 2
                 [] LoneCrAt(e) -> line_is'.pos = e + 1
                 [] OTHER -> FALSE
            /\ line_is.pos > Len(line_file) =>
                   line_t' = "" /\ line_is'.pos = line_is.pos)]_vars

\* Four calls were made on the file a CR a CR LF: the first stopped at the CR
\* that no LF follows, the second took the CR LF as one boundary, the third
\* and fourth were made at the end of the file and returned an empty line.
C23_CalledPastEndOfFile ==
    /\ pc = "lines"
    /\ line_file = "a\ra\r\n"
    /\ line_calls = 4
    /\ line_t = ""
    /\ line_is.pos = 6

\* C24: ObjModel::load never stays for ever in a loop of read_face, and
\* read_face never stores corners without end until the process dies.
C24_ReadFaceStops ==
    ~(pc \in {"hung", "crashed"} /\ curr_state = "read_f")

\* C25: after a successful load, the call of triangle_mesh_from_group that
\* load_obj_meshes is about to make for a group whose material exists reads
\* no element outside the face, position, texcoord and normal arrays.
C25_BuildReadsInsideArrays ==
    (/\ pc = "build" /\ gi < Len(groups)
     /\ get_material(materials, groups[gi + 1].material_id) # NULL)
    => \A indet \in BOOLEAN :
          ~triangle_mesh_from_group(gi, vertices, tex_coords, normals, faces, groups,
                                    materials, indet).ub

\* C16: when load_obj_meshes gets past ObjModel::load, the geometry file was
\* read to its end, and so was the material library file if one was loaded:
\* a read that fails before the end makes the load fail.
C16_ReadFailureAbortsLoad ==
    Loaded =>
        /\ modelfile.pos > Len(objtext)
        /\ material_lib_name # "" => mtl_file.pos > Len(mtltext)

\* The unit square and its face of four corners.
QuadScript == <<12, 1, 13, 14, 15>>

\* C10: the unit square loads and gives one mesh of the two triangles (1,2,3)
\* and (1,3,4): six vertex slots holding the positions of the corners 1, 2,
\* 3, 1, 3, 4, and six normals (0,0,1).
C10_QuadEndToEnd ==
    input.script = QuadScript =>
        /\ pc \in {"load", "build", "done"}
        /\ pc = "done" =>
              /\ Len(meshes) = 1
              /\ meshes[1].mesh.faces = <<0, 1, 2, 3, 4, 5>>
              /\ meshes[1].mesh.vertices = << <<0, 0, 0>>, <<1, 0, 0>>, <<1, 1, 0>>,
                                              <<0, 0, 0>>, <<1, 1, 0>>, <<0, 1, 0>> >>
              /\ meshes[1].mesh.vertex_normals = [k \in 1..6 |-> <<0, 0, 1>>]

====
